---- MODULE Spec2Model ----
(***************************************************************************)
(* Model of mcp_client/client.py: the MCPClient session lifecycle          *)
(* (_initialize, the four forwarding operations, close, the async and the  *)
(* synchronous context-manager entry points) and the configuration         *)
(* resolution of MCPClient._find_config_file / from_config / __init__.     *)
(*                                                                         *)
(* Python values are pairs <<type, payload>>; the payload of a str is a     *)
(* sequence of one-character strings.  Object references                   *)
(* (_exit_stack, _mcp_client) are indices into the heap sequences `stacks` *)
(* and `res`, 0 standing for None.                                         *)
(*                                                                         *)
(* Coroutines run atomically between two awaits (asyncio is cooperative),  *)
(* so an action is the code from one suspension point to the next.         *)
(***************************************************************************)
EXTENDS Integers, Sequences, FiniteSets, TLC

\* ---------------------------------------------------------------- bounds
NumTasks == 2       \* coroutines sharing the client
MaxCalls == 3       \* calls made on the client in one behaviour
MaxOverrides == 1   \* keyword overrides passed to from_config
MaxOptional == 1    \* optional keys present in the config-file entry

Tasks == 1..NumTasks

\* ------------------------------------------------------- Python values
\* a value is the pair <<type, payload>>, so x[1] is type(x) and x[2] what
\* it holds; Absent marks a key that a dict does not have or an argument
\* that was not passed
NoneV == <<"NoneType", 0>>
Absent == <<"absent", 0>>
Str(s) == <<"str", s>>
Num(n) == <<"int", n>>
List(l) == <<"list", l>>
Dict(d) == <<"dict", d>>

STDIO == <<"s", "t", "d", "i", "o">>
SSE == <<"s", "s", "e">>
HTTP == <<"h", "t", "t", "p">>
WS == <<"w", "s">>
ENV_PREFIX == <<"e", "n", "v", ":">>
BEARER == <<"B", "e", "a", "r", "e", "r", " ">>

DEFAULT_TIMEOUT == 60

\* bool(x)
Truthy(x) ==
    CASE x[1] = "NoneType" -> FALSE
      [] x[1] = "str" -> x[2] # <<>>
      [] x[1] = "int" -> x[2] # 0
      [] x[1] = "list" -> x[2] # <<>>
      [] x[1] = "dict" -> DOMAIN x[2] # {}

\* x or y
Or(x, y) == IF Truthy(x) THEN x ELSE y

\* d.get(k, default)
Get(d, k, default) == IF d[k][1] = "absent" THEN default ELSE d[k]

\* variant: trailing slashes are kept
KeepSlashes(s) == s

\* str.rstrip('/')
RECURSIVE rstrip(_)
rstrip(s) ==
    IF s # <<>> /\ s[Len(s)] = "/" THEN rstrip(SubSeq(s, 1, Len(s) - 1)) ELSE s

\* str.lower(), over the letters the model's strings are written in
LowerChar(c) == CASE c = "S" -> "s" [] c = "E" -> "e" [] OTHER -> c
lower(s) == [i \in DOMAIN s |-> LowerChar(s[i])]

\* str.startswith(p)
startswith(s, p) == Len(s) >= Len(p) /\ SubSeq(s, 1, Len(p)) = p

\* dict.update: a copy of a updated with b
Update(a, b) ==
    [k \in DOMAIN a \cup DOMAIN b |-> IF k \in DOMAIN b THEN b[k] ELSE a[k]]

Transports == {STDIO, SSE, HTTP, WS}
Ops == {"list_tools", "get_prompt", "call_tool", "get_server_metadata"}
InitCalls == Ops \cup {"initialize", "aenter"}
CloseCalls == {"close", "aexit"}
Failures == {"unsupported_transport", "connection", "io_error", "attribute_error",
             "unsupported_mode"}

VARIABLES
    transport,    \* self.transport
    base_url,     \* self.base_url
    exit_stack,   \* self._exit_stack: 0 (None) or an index of stacks
    mcp_client,   \* self._mcp_client: 0 (None) or an index of res
    stacks,       \* the AsyncExitStack objects created so far: each the
                  \* sequence of resources whose exit callback it holds
    res,          \* the transports and sessions entered so far
    released,     \* resources in the order their exit callback completed
    pc,           \* per task: the await it is suspended at, or "idle"
    call,         \* per task: the method it is in ("none" when idle)
    capt,         \* per task: the stack object its pending await acts on
    obj,          \* per task: local `session` / the resource being exited
    scope,        \* per task: position relative to an `async with` block
    fwd,          \* per task: the session its operation is forwarded to
    last,         \* the call that returned or raised last: its method,
                  \* its outcome and the session it was forwarded to
    ncalls,       \* number of calls made on the client so far
    everInit,     \* some call has entered _initialize
    closeCalled,  \* some call has entered close
    closedReady,  \* some close() has completed on a ready client
    closeDuringInit, \* the call made last is a close() that was entered
                  \* while an _initialize() was suspended at an await and
                  \* every open resource was on the referenced stack
    server_config,\* from_config: the named server's entry of the file
    kwargs,       \* from_config: the caller's keyword overrides
    environ,      \* os.environ
    loaded,       \* from_config: its outcome and the client it returned
    server_name,  \* from_config: the alias asked for
    config_path,  \* from_config, _find_config_file: the explicit path
    paths,        \* the file system: what is at each candidate location
    home_dir,     \* whether Path.home() can tell the home directory
    config_data,  \* what reading and parsing the located file gives
    found_config_path,   \* what _find_config_file returned
    target_server_name   \* from_config: the alias it settled on

vars == <<transport, base_url, exit_stack, mcp_client, stacks, res, released,
          pc, call, capt, obj, scope, fwd, last,
          ncalls, everInit, closeCalled, closedReady, closeDuringInit,
          server_config, kwargs, environ, loaded,
          server_name, config_path, paths, home_dir, config_data,
          found_config_path, target_server_name>>

file == <<server_name, config_path, paths, home_dir, config_data,
          found_config_path, target_server_name>>
config == <<server_config, kwargs, environ, loaded, file>>
client == <<transport, base_url, config>>
heap == <<stacks, res, released>>
hist == <<ncalls, everInit, closeCalled, closedReady, closeDuringInit>>

\* ------------------------------------------------------------ __init__
Fields == {"base_url", "timeout", "api_key", "default_headers",
           "default_parameters", "transport", "command", "args"}

\* the parameters' default values (lines 89-98)
InitDefaults ==
    [base_url |-> NoneV, timeout |-> Num(DEFAULT_TIMEOUT), api_key |-> NoneV,
     default_headers |-> NoneV, default_parameters |-> NoneV,
     config_default_headers |-> NoneV, config_default_parameters |-> NoneV,
     transport |-> Str(HTTP), command |-> NoneV, args |-> NoneV]

\* os.getenv(name)
getenv(env, name) ==
    IF name \in DOMAIN env /\ env[name][1] # "absent" THEN env[name] ELSE NoneV

\* variant: the key is taken literally, the environment never read
ResolveApiKeyLiteral(api_key, env) == IF api_key[1] = "str" THEN api_key ELSE NoneV

\* lines 113-124
ResolveApiKey(api_key, env) ==
    IF api_key[1] = "str"
    THEN IF startswith(api_key[2], ENV_PREFIX)
         THEN getenv(env, SubSeq(api_key[2], Len(ENV_PREFIX) + 1, Len(api_key[2])))
         ELSE api_key
    ELSE NoneV

\* a dict built empty and updated with each truthy argument in turn
MergeDicts(first, second) ==
    LET a == IF Truthy(first) THEN first[2] ELSE <<>>
    IN IF Truthy(second) THEN Update(a, second[2]) ELSE a

\* variant: the Authorization header is written first, the dicts after it
InitHeadersKeyFirst(cfg_headers, headers, key) ==
    LET h == MergeDicts(cfg_headers, headers)
    IN IF Truthy(key) THEN Update([k \in {"Authorization"} |-> BEARER \o key[2]], h)
       ELSE h

\* lines 126-133
InitHeaders(cfg_headers, headers, key) ==
    LET h == MergeDicts(cfg_headers, headers)
    IN IF Truthy(key) THEN Update(h, [k \in {"Authorization"} |-> BEARER \o key[2]])
       ELSE h

\* MCPClient.__init__ called with the keyword arguments kw (Absent: not
\* passed), in environment env
MCPClientInit(kw, env) ==
    LET a == [k \in DOMAIN InitDefaults |-> Get(kw, k, InitDefaults[k])]
    IN [transport |-> a.transport,
        command |-> a.command,
        args |-> Or(a.args, List(<<>>)),
        base_url |-> IF Truthy(a.base_url) THEN Str(rstrip(a.base_url[2])) ELSE NoneV,
        timeout |-> a.timeout,
        default_parameters |->
            MergeDicts(a.config_default_parameters, a.default_parameters),
        headers |->
            InitHeaders(a.config_default_headers, a.default_headers,
                        ResolveApiKey(a.api_key, env))]

NoArgs == [k \in DOMAIN InitDefaults |-> Absent]
NoConfig == [k \in Fields |-> Absent]
NoEnviron == [n \in {<<"X">>} |-> Absent]
NotLoaded == [status |-> "none", client |-> MCPClientInit(NoArgs, NoEnviron)]

\* ---------------------------------------------------- _find_config_file
\* the locations a configuration file is looked for at: the explicit path,
\* ./mcp.json, ~/.mcp.json and ~/.config/mcp/mcp.json; and what is_file()
\* meets there (nothing, a regular file, a directory, an OSError)
Locations == {"explicit", "cwd", "home", "home_config"}
FileKinds == {"missing", "file", "dir", "oserror"}
Path(l) == <<"Path", l>>
NoPaths == [l \in Locations |-> "missing"]

\* lines 146-156
PotentialPaths(cp, home) ==
    IF Truthy(cp) THEN <<"explicit">>
    ELSE <<"cwd">> \o (IF home THEN <<"home", "home_config">> ELSE <<>>)

\* variant: the candidates are tried from the last to the first
RECURSIVE LastFile(_, _)
LastFile(ps, fs) ==
    IF ps = <<>> THEN NoneV
    ELSE IF fs[ps[Len(ps)]] = "file" THEN Path(ps[Len(ps)])
    ELSE LastFile(SubSeq(ps, 1, Len(ps) - 1), fs)

\* lines 158-168
RECURSIVE FirstFile(_, _)
FirstFile(ps, fs) ==
    IF ps = <<>> THEN NoneV
    ELSE IF fs[Head(ps)] = "file" THEN Path(Head(ps))
    ELSE FirstFile(Tail(ps), fs)

FindConfigFile(cp, fs, home) == FirstFile(PotentialPaths(cp, home), fs)

\* no file has been looked for
NoLookup ==
    /\ server_name = NoneV
    /\ config_path = NoneV
    /\ paths = NoPaths
    /\ home_dir = TRUE
    /\ config_data = Absent
    /\ found_config_path = Absent
    /\ target_server_name = Absent

\* the clients the lifecycle is explored for: constructed directly with
\* a transport and a base_url (which only the sse transport reads)
ClientArgs ==
    {<<STDIO, Absent>>, <<SSE, Absent>>, <<SSE, Str(<<"/">>)>>,
     <<SSE, Str(<<"u", "/">>)>>, <<HTTP, Str(<<"u", "/">>)>>, <<WS, Absent>>}

\* no coroutine has called the client yet
NothingCalled ==
    /\ released = <<>>
    /\ pc = [t \in Tasks |-> "idle"]
    /\ call = [t \in Tasks |-> "none"]
    /\ capt = [t \in Tasks |-> 0]
    /\ obj = [t \in Tasks |-> 0]
    /\ scope = [t \in Tasks |-> "none"]
    /\ fwd = [t \in Tasks |-> "none"]
    /\ last = [call |-> "none", result |-> "none", fwd |-> "none"]
    /\ ncalls = 0
    /\ everInit = FALSE
    /\ closeCalled = FALSE
    /\ closedReady = FALSE
    /\ closeDuringInit = FALSE

\* variant: the constructor already opens the transport
InitEager ==
    /\ \E a \in ClientArgs :
         LET c == MCPClientInit([NoArgs EXCEPT !.transport = Str(a[1]),
                                               !.base_url = a[2]], NoEnviron)
         IN /\ transport = c.transport
            /\ base_url = c.base_url
    /\ exit_stack = 1
    /\ mcp_client = 0
    /\ stacks = << <<1>> >>
    /\ res = <<[kind |-> "transport", stack |-> 1, state |-> "open", hs |-> FALSE]>>
    /\ NothingCalled
    /\ server_config = NoConfig
    /\ kwargs = NoConfig
    /\ environ = NoEnviron
    /\ loaded = NotLoaded
    /\ NoLookup

Init ==
    /\ \E a \in ClientArgs :
         LET c == MCPClientInit([NoArgs EXCEPT !.transport = Str(a[1]),
                                               !.base_url = a[2]], NoEnviron)
         IN /\ transport = c.transport
            /\ base_url = c.base_url
    /\ exit_stack = 0
    /\ mcp_client = 0
    /\ stacks = <<>>
    /\ res = <<>>
    /\ NothingCalled
    /\ server_config = NoConfig
    /\ kwargs = NoConfig
    /\ environ = NoEnviron
    /\ loaded = NotLoaded
    /\ NoLookup

\* ---------------------------------------------------------- from_config
\* a call that raised returns no client
Raised(kind) == [status |-> kind, client |-> MCPClientInit(NoArgs, NoEnviron)]

IsStr(x, s) == x[1] = "str" /\ x[2] = s

\* lines 257-263: a default_headers / default_parameters that is not a
\* dict is ignored
DictOrNone(x) == IF x[1] # "NoneType" /\ x[1] # "dict" THEN NoneV ELSE x

\* lines 265-277
InitKwargs(sc, kw, tr, bu) ==
    [base_url |-> Get(kw, "base_url", bu),
     timeout |-> Or(Get(kw, "timeout", Get(sc, "timeout", NoneV)),
                    Num(DEFAULT_TIMEOUT)),
     api_key |-> Get(kw, "api_key", Get(sc, "api_key", NoneV)),
     config_default_headers |-> DictOrNone(Get(sc, "default_headers", NoneV)),
     config_default_parameters |-> DictOrNone(Get(sc, "default_parameters", NoneV)),
     default_headers |-> Get(kw, "default_headers", NoneV),
     default_parameters |-> Get(kw, "default_parameters", NoneV),
     transport |-> Get(kw, "transport", tr),
     command |-> Get(kw, "command", Get(sc, "command", NoneV)),
     args |-> Get(kw, "args", Get(sc, "args", NoneV))]

\* lines 279-285: None values are not passed on, but for the few kept
FilterKwargs(ik) ==
    [k \in DOMAIN ik |->
        IF ik[k][1] # "NoneType" THEN ik[k]
        ELSE IF \/ k = "timeout"
                \/ IsStr(ik.transport, HTTP) /\ k = "base_url"
                \/ IsStr(ik.transport, STDIO) /\ k = "command"
             THEN ik[k]
             ELSE Absent]

\* lines 231-288: from the named server's entry sc, the overrides kw and
\* the environment env to the client, or to the exception raised
FromConfig(sc, kw, env) ==
    LET base_url0 == Get(sc, "base_url", NoneV)
        tr == Str(lower(Get(sc, "transport", Str(HTTP))[2]))
        command0 == Get(sc, "command", NoneV)
        args0 == Get(sc, "args", NoneV)
    IN IF tr[2] = STDIO
       THEN IF ~Truthy(command0) THEN Raised("MCPDataError")
            ELSE IF command0[1] # "str" THEN Raised("MCPDataError")
            ELSE IF args0[1] # "NoneType" /\ args0[1] # "list"
                 THEN Raised("MCPDataError")
            ELSE [status |-> "ok",
                  client |-> MCPClientInit(
                      FilterKwargs(InitKwargs(sc, kw, tr, NoneV)), env)]
       ELSE IF tr[2] \in {HTTP, SSE}
       THEN IF ~Truthy(base_url0) \/ base_url0[1] # "str"
            THEN Raised("MCPDataError")
            ELSE [status |-> "ok",
                  client |-> MCPClientInit(
                      FilterKwargs(InitKwargs(sc, kw, tr, base_url0)), env)]
       ELSE Raised("ValueError")

\* ------------------------------------------- from_config, lines 194-229
DEFAULT == <<"d", "e", "f", "a", "u", "l", "t">>
Aliases == {<<"a">>, <<"b">>, DEFAULT}

\* a dict keyed by the aliases, Absent marking a key it does not have
NoServers == [a \in Aliases |-> Absent]

\* x in c: "True", "False", or the TypeError of a c that is no container
In(x, c) ==
    CASE c[1] = "dict" ->
           IF x \in DOMAIN c[2] /\ c[2][x][1] # "absent" THEN "True" ELSE "False"
      [] c[1] = "str" ->
           IF \E i \in 1..(Len(c[2]) - Len(x) + 1) :
                  SubSeq(c[2], i, i + Len(x) - 1) = x
           THEN "True" ELSE "False"
      [] OTHER -> "TypeError"

\* servers_dict.get(name)
GetServer(d, name) ==
    IF name[1] = "str" /\ name[2] \in DOMAIN d /\ d[name[2]][1] # "absent"
    THEN d[name[2]]
    ELSE NoneV

\* the outcome of a from_config that stopped before it had an entry
Stopped(kind, found, target) ==
    [status |-> kind, client |-> MCPClientInit(NoArgs, NoEnviron),
     found |-> found, target |-> target, entry |-> [k \in Fields |-> Absent]]

\* lines 211-213: the argument, else the file's default_server
Target(sn, ds) == IF Truthy(sn) THEN sn ELSE ds

\* lines 210-229 and on: the alias is settled, its entry fetched and the
\* client built from it
SelectServer(sn, cd, kw, env, found) ==
    IF cd[1] # "dict" THEN Stopped("AttributeError", found, Absent)
    ELSE
    LET ds == Get(cd[2], "default_server", NoneV)
        t == Target(sn, ds)
        isin == In(DEFAULT, Get(cd[2], "servers", Dict(NoServers)))
        servers_dict == Get(cd[2], "servers", NoneV)
    IN IF ~Truthy(t) /\ isin = "TypeError"
       THEN Stopped("TypeError", found, Absent)
       ELSE IF ~Truthy(t) /\ isin = "False"
       THEN Stopped("ValueError", found, Absent)
       ELSE
       LET target == IF Truthy(t) THEN t ELSE Str(DEFAULT)
       IN IF servers_dict[1] # "dict"
          THEN Stopped("MCPDataError", found, target)
          ELSE IF GetServer(servers_dict[2], target)[1] # "dict"
          THEN Stopped("KeyError", found, target)
          ELSE LET entry == GetServer(servers_dict[2], target)[2]
                   r == FromConfig(entry, kw, env)
               IN [status |-> r.status, client |-> r.client,
                   found |-> found, target |-> target, entry |-> entry]

\* what open() and json.load() of the located file give: a parsed
\* document, or the exception raised
ReadFailures == {"JSONDecodeError", "OSError", "UnicodeDecodeError"}

\* lines 194-208 and on: from_config from its first line
LoadConfig(sn, cp, fs, home, cd, kw, env) ==
    LET found == FindConfigFile(cp, fs, home)
    IN IF found = NoneV THEN Stopped("FileNotFoundError", found, Absent)
       ELSE CASE cd[1] = "JSONDecodeError" -> Stopped("MCPDataError", found, Absent)
              [] cd[1] = "OSError" -> Stopped("OSError", found, Absent)
              [] cd[1] = "UnicodeDecodeError" -> Stopped("MCPError", found, Absent)
              [] OTHER -> SelectServer(sn, cd, kw, env, found)

\* the arguments, file systems and documents explored
ServerNames == {NoneV, Str(<<>>), Str(<<"a">>), Str(<<"b">>)}
ConfigPaths == {NoneV, Str(<<>>), Str(<<"p">>)}
FileSystems == [Locations -> FileKinds]
CwdOnly == [NoPaths EXCEPT !["cwd"] = "file"]

\* the entry written under alias a: one that names its alias
EntryOf(a) == [[k \in Fields |-> Absent] EXCEPT !.base_url = Str(a)]

\* a servers map: each alias missing, not an object, or its entry
ServersDicts ==
    {[a \in Aliases |->
         CASE k[a] = "entry" -> Dict(EntryOf(a))
           [] k[a] = "other" -> Str(<<"x">>)
           [] OTHER -> Absent] :
     k \in [Aliases -> {"absent", "other", "entry"}]}

ServersValues ==
    {Absent, NoneV, Str(<<"x">>)} \cup {Dict(f) : f \in ServersDicts}

DefaultServers == {Absent, Str(<<>>), Str(<<"a">>), Str(<<"b">>)}

Documents ==
    {List(<<>>)}
        \cup {<<k, 0>> : k \in ReadFailures}
        \cup {Dict([default_server |-> ds, servers |-> sv]) :
                 ds \in DefaultServers, sv \in ServersValues}

PlainDocument ==
    Dict([default_server |-> Absent,
          servers |-> Dict([NoServers EXCEPT ![DEFAULT] = Dict(EntryOf(DEFAULT))])])
OptionalKeys == {"api_key", "timeout", "default_headers", "default_parameters"}
Given(d, keys) == {k \in keys : d[k][1] # "absent"}

FileEntries ==
    {sc \in [base_url : {Absent, Str(<<"/">>), Str(<<"u">>), Str(<<"u", "/">>)},
             transport : {Absent, Str(STDIO), Str(SSE), Str(HTTP), Str(WS),
                          Str(<<"S", "S", "E">>)},
             command : {Absent, Str(<<"c">>)},
             args : {Absent, List(<< <<"a">> >>)},
             api_key : {Absent, Str(<<"k">>), Str(ENV_PREFIX \o <<"X">>)},
             timeout : {Absent, Num(30)},
             default_headers :
                 {Absent, Str(<<"x">>),
                  Dict([k \in {"h", "Authorization"} |-> <<"f">>])},
             default_parameters : {Absent, Dict([k \in {"p"} |-> <<"f">>])}] :
        Cardinality(Given(sc, OptionalKeys)) <= MaxOptional}

Overrides ==
    {kw \in [base_url : {Absent, NoneV, Str(<<>>), Str(<<"v", "/">>)},
             transport : {Absent, NoneV, Str(STDIO), Str(SSE)},
             command : {Absent, Str(<<"d">>)},
             args : {Absent, List(<< <<"b">> >>)},
             api_key : {Absent, Str(<<>>), Str(<<"j">>), Str(ENV_PREFIX \o <<"X">>)},
             timeout : {Absent, NoneV, Num(0), Num(10)},
             default_headers :
                 {Absent, Dict([k \in {"h"} |-> <<"o">>]),
                  Dict([k \in {"g", "Authorization"} |-> <<"o">>])},
             default_parameters : {Absent, Dict([k \in {"p"} |-> <<"o">>])}] :
        Cardinality(Given(kw, Fields)) <= MaxOverrides}

Environs == [{<<"X">>} -> {Absent, Str(<<>>), Str(<<"s">>)}]

\* some api_key names an environment variable
ReadsEnviron(sc, kw) ==
    \E d \in {sc, kw} : d.api_key[1] = "str" /\ startswith(d.api_key[2], ENV_PREFIX)

\* ------------------------------------------------------ task bookkeeping
SetTask(t, p, c, k, o, sc, f) ==
    /\ pc' = [pc EXCEPT ![t] = p]
    /\ call' = [call EXCEPT ![t] = c]
    /\ capt' = [capt EXCEPT ![t] = k]
    /\ obj' = [obj EXCEPT ![t] = o]
    /\ scope' = [scope EXCEPT ![t] = sc]
    /\ fwd' = [fwd EXCEPT ![t] = f]

\* `async with`: a failure inside __aenter__ propagates without __aexit__
\* being run; a failure inside the body leaves the block ("raised") and
\* __aexit__ runs next; __aexit__ ends the block
ScopeOut(t, c, r) ==
    IF c = "aenter" THEN (IF r = "ok" THEN "body" ELSE "none")
    ELSE IF c = "aexit" THEN "none"
    ELSE IF scope[t] = "body" /\ r \in Failures THEN "raised"
    ELSE scope[t]

\* the call returns (r = "ok") or raises (r \in Failures) to the caller
Return(t, c, r, f) ==
    /\ SetTask(t, "idle", "none", 0, 0, ScopeOut(t, c, r), "none")
    /\ last' = [call |-> c, result |-> r, fwd |-> f]

\* the call is suspended at await p
Suspend(t, p, c, k, o, f) ==
    /\ SetTask(t, p, c, k, o, scope[t], f)
    /\ UNCHANGED last

\* what a task may call next: __aexit__ only runs on leaving an entered
\* block, blocks are not nested, and once a statement of the body has
\* raised, __aexit__ is what runs next.  Idle tasks at the same position
\* are interchangeable, so the call is made by the first of them.
MayCall(t, c) ==
    /\ pc[t] = "idle"
    /\ \A u \in Tasks : (u < t /\ pc[u] = "idle") => scope[u] # scope[t]
    /\ ncalls < MaxCalls
    /\ c = "aexit" => scope[t] \in {"body", "raised"}
    /\ scope[t] = "raised" => c = "aexit"
    /\ c = "aenter" => scope[t] = "none"

\* ---------------------------------------------------------- _initialize
\* the tasks suspended inside _initialize: at the transport's entry, at
\* the session's entry, at the handshake
InInitialize == {t \in Tasks : pc[t] \in {"open_wait", "session_wait", "handshake_wait"}}

\* every resource that is open is registered on the stack that
\* self._exit_stack references
Registered == \A r \in DOMAIN res : res[r].state = "open" => res[r].stack = exit_stack

\* variant: the idempotence test is missing
InitGuardAlways(es) == TRUE

\* if self._exit_stack is None:
InitGuard(es) == es = 0

SessionStatus(m, rs) ==
    IF m = 0 THEN "absent"
    ELSE IF rs[m].hs /\ rs[m].state = "open" THEN "ready"
    ELSE "stale"

\* the caller's code after `await self._initialize()` has returned:
\* an operation passes self._mcp_client (m) to the adapter / session
AfterInitialize(t, c, m, rs) ==
    IF c \in Ops
    THEN IF m = 0
         THEN Return(t, c, "attribute_error", "absent")
         ELSE Suspend(t, "forward_wait", c, 0, 0, SessionStatus(m, rs))
    ELSE Return(t, c, "ok", "none")

\* _initialize from its first line to its first await (or return / raise)
RunInitialize(t, c) ==
    /\ everInit' = TRUE
    /\ closeDuringInit' = FALSE
    /\ ncalls' = ncalls + 1
    /\ UNCHANGED <<client, res, released, mcp_client, closeCalled, closedReady>>
    /\ IF InitGuard(exit_stack)
       THEN /\ stacks' = Append(stacks, <<>>)
            /\ exit_stack' = Len(stacks) + 1
            /\ CASE transport = Str(STDIO) ->
                      Suspend(t, "open_wait", c, Len(stacks) + 1, 0, "none")
                 [] transport = Str(SSE) ->
                      IF ~Truthy(base_url)
                      THEN Return(t, c, "connection", "none")
                      ELSE Suspend(t, "open_wait", c, Len(stacks) + 1, 0, "none")
                 [] transport = Str(HTTP) ->
                      Return(t, c, "unsupported_transport", "none")
                 [] OTHER ->
                      Return(t, c, "unsupported_transport", "none")
       ELSE /\ UNCHANGED <<stacks, exit_stack>>
            /\ AfterInitialize(t, c, mcp_client, res)

Resource(k, s) == [kind |-> k, stack |-> s, state |-> "open", hs |-> FALSE]

\* await self._exit_stack.enter_async_context(stdio_client / sse_client)
\* completes: the transport is pushed on the stack the call was made on,
\* then self._exit_stack is read again for the session's entry
OpenDone(t) ==
    /\ pc[t] = "open_wait"
    /\ UNCHANGED <<client, exit_stack, mcp_client, released, hist>>
    /\ \E ok \in BOOLEAN :
         IF ok
         THEN /\ res' = Append(res, Resource("transport", capt[t]))
              /\ stacks' = [stacks EXCEPT ![capt[t]] = Append(@, Len(res) + 1)]
              /\ IF exit_stack = 0
                 THEN Return(t, call[t], "attribute_error", "none")
                 ELSE Suspend(t, "session_wait", call[t], exit_stack, 0, "none")
         ELSE /\ UNCHANGED <<res, stacks>>
              /\ Return(t, call[t], "io_error", "none")

\* await self._exit_stack.enter_async_context(ClientSession(read, write))
\* completes; then session.initialize() is awaited
SessionDone(t) ==
    /\ pc[t] = "session_wait"
    /\ UNCHANGED <<client, exit_stack, mcp_client, released, hist>>
    /\ \E ok \in BOOLEAN :
         IF ok
         THEN /\ res' = Append(res, Resource("session", capt[t]))
              /\ stacks' = [stacks EXCEPT ![capt[t]] = Append(@, Len(res) + 1)]
              /\ Suspend(t, "handshake_wait", call[t], 0, Len(res) + 1, "none")
         ELSE /\ UNCHANGED <<res, stacks>>
              /\ Return(t, call[t], "io_error", "none")

\* variant: the session is stored whether or not its handshake succeeded
HandshakeDoneStoresAnyway(t) ==
    /\ pc[t] = "handshake_wait"
    /\ UNCHANGED <<client, exit_stack, stacks, released, hist>>
    /\ mcp_client' = obj[t]
    /\ \E ok \in BOOLEAN :
         IF ok
         THEN /\ res' = [res EXCEPT ![obj[t]].hs = TRUE]
              /\ AfterInitialize(t, call[t], obj[t], res')
         ELSE /\ UNCHANGED res
              /\ Return(t, call[t], "io_error", "none")

\* await session.initialize() completes; self._mcp_client = session
HandshakeDone(t) ==
    /\ pc[t] = "handshake_wait"
    /\ UNCHANGED <<client, exit_stack, stacks, released, hist>>
    /\ \E ok \in BOOLEAN :
         IF ok
         THEN /\ res' = [res EXCEPT ![obj[t]].hs = TRUE]
              /\ mcp_client' = obj[t]
              /\ AfterInitialize(t, call[t], obj[t], res')
         ELSE /\ UNCHANGED <<res, mcp_client>>
              /\ Return(t, call[t], "io_error", "none")

\* ------------------------------------------------------------ operations
Operation(t, op) ==
    /\ MayCall(t, op)
    /\ RunInitialize(t, op)

list_tools(t) == Operation(t, "list_tools")
get_prompt(t) == Operation(t, "get_prompt")
call_tool(t) == Operation(t, "call_tool")
get_server_metadata(t) == Operation(t, "get_server_metadata")

\* the session (an external collaborator) answers or fails
OperationDone(t) ==
    /\ pc[t] = "forward_wait"
    /\ UNCHANGED <<client, exit_stack, mcp_client, heap, hist>>
    /\ \E r \in {"ok", "io_error"} : Return(t, call[t], r, fwd[t])

\* a direct call of _initialize()
initialize(t) ==
    /\ MayCall(t, "initialize")
    /\ RunInitialize(t, "initialize")

\* ----------------------------------------------------------------- close
\* variant: close does not test whether there is a stack
CloseGuardAlways(es) == TRUE

\* if self._exit_stack:
CloseGuard(es) == es # 0

\* variant: the resources are released in the order of acquisition
PopFirst(stk) == 1

\* AsyncExitStack unwinds last-in first-out
PopIndex(stk) == Len(stk)
Remove(stk, i) == SubSeq(stk, 1, i - 1) \o SubSeq(stk, i + 1, Len(stk))

\* variant: close forgets `self._exit_stack = None`
CloseResetKeepsStack(t, c) ==
    /\ exit_stack' = exit_stack
    /\ mcp_client' = 0
    /\ closedReady' = (closedReady \/ mcp_client # 0)
    /\ Return(t, c, "ok", "none")

\* variant: close forgets `self._mcp_client = None`
CloseResetKeepsSession(t, c) ==
    /\ exit_stack' = 0
    /\ mcp_client' = mcp_client
    /\ closedReady' = (closedReady \/ mcp_client # 0)
    /\ Return(t, c, "ok", "none")

\* self._exit_stack = None; self._mcp_client = None
CloseReset(t, c) ==
    /\ exit_stack' = 0
    /\ mcp_client' = 0
    /\ closedReady' = (closedReady \/ mcp_client # 0)
    /\ Return(t, c, "ok", "none")

\* close from its first line to the first await inside aclose()
RunClose(t, c) ==
    /\ closeCalled' = TRUE
    /\ closeDuringInit' = (InInitialize # {} /\ Registered)
    /\ ncalls' = ncalls + 1
    /\ UNCHANGED <<client, res, released, everInit>>
    /\ IF ~CloseGuard(exit_stack)
       THEN /\ UNCHANGED <<exit_stack, mcp_client, stacks, closedReady>>
            /\ Return(t, c, "ok", "none")
       ELSE IF exit_stack = 0
       THEN /\ UNCHANGED <<exit_stack, mcp_client, stacks, closedReady>>
            /\ Return(t, c, "attribute_error", "none")
       ELSE IF stacks[exit_stack] = <<>>
       THEN /\ UNCHANGED stacks
            /\ CloseReset(t, c)
       ELSE LET s == exit_stack
                i == PopIndex(stacks[s])
            IN /\ stacks' = [stacks EXCEPT ![s] = Remove(@, i)]
               /\ UNCHANGED <<exit_stack, mcp_client, closedReady>>
               /\ Suspend(t, "aclose_wait", c, s, stacks[s][i], "none")

close(t) ==
    /\ MayCall(t, "close")
    /\ RunClose(t, "close")

\* one exit callback of aclose() completes; the next one is popped, or
\* aclose() returns and close resets the two references
AcloseStep(t) ==
    /\ pc[t] = "aclose_wait"
    /\ UNCHANGED <<client, ncalls, everInit, closeCalled, closeDuringInit>>
    /\ res' = [res EXCEPT ![obj[t]].state = "closed"]
    /\ released' = Append(released, obj[t])
    /\ IF stacks[capt[t]] = <<>>
       THEN /\ UNCHANGED stacks
            /\ CloseReset(t, call[t])
       ELSE LET s == capt[t]
                i == PopIndex(stacks[s])
            IN /\ stacks' = [stacks EXCEPT ![s] = Remove(@, i)]
               /\ UNCHANGED <<exit_stack, mcp_client, closedReady>>
               /\ Suspend(t, "aclose_wait", call[t], s, stacks[s][i], "none")

\* ------------------------------------------------- async context manager
aenter(t) ==
    /\ MayCall(t, "aenter")
    /\ RunInitialize(t, "aenter")

aexit(t) ==
    /\ MayCall(t, "aexit")
    /\ RunClose(t, "aexit")

\* -------------------------------------------- synchronous context manager
\* variant: __enter__ emulates the asynchronous entry
enterEmulated(t) ==
    /\ MayCall(t, "enter")
    /\ RunInitialize(t, "enter")

\* __enter__: raises RuntimeError; `with client:` ends there, __exit__ is
\* not run
enter(t) ==
    /\ MayCall(t, "enter")
    /\ ncalls' = ncalls + 1
    /\ Return(t, "enter", "unsupported_mode", "none")
    /\ closeDuringInit' = FALSE
    /\ UNCHANGED <<client, exit_stack, mcp_client, heap,
                   everInit, closeCalled, closedReady>>

\* __exit__, called directly: pass
exit(t) ==
    /\ MayCall(t, "exit")
    /\ ncalls' = ncalls + 1
    /\ Return(t, "exit", "ok", "none")
    /\ closeDuringInit' = FALSE
    /\ UNCHANGED <<client, exit_stack, mcp_client, heap,
                   everInit, closeCalled, closedReady>>

\* ------------------------------------------------------- specifications
TaskNext(t) ==
    \/ initialize(t)
    \/ list_tools(t)
    \/ get_prompt(t)
    \/ call_tool(t)
    \/ get_server_metadata(t)
    \/ close(t)
    \/ aenter(t)
    \/ aexit(t)
    \/ enter(t)
    \/ exit(t)
    \/ OpenDone(t)
    \/ SessionDone(t)
    \/ HandshakeDone(t)
    \/ OperationDone(t)
    \/ AcloseStep(t)

\* any number of coroutines share the client
Next == \E t \in Tasks : TaskNext(t)
Spec == Init /\ [][Next]_vars

\* one caller drives the client, one call at a time
NextSerial == TaskNext(1)
SpecSerial == Init /\ [][NextSerial]_vars

\* MCPClient.from_config, from a located and parsed file whose servers
\* map has the named entry; the environment varies where it is read
InitConfig ==
    /\ server_config \in FileEntries
    /\ kwargs \in Overrides
    /\ environ \in Environs
    /\ ReadsEnviron(server_config, kwargs) \/ environ = NoEnviron
    /\ loaded = NotLoaded
    /\ NoLookup
    /\ transport = NotLoaded.client.transport
    /\ base_url = NotLoaded.client.base_url
    /\ exit_stack = 0
    /\ mcp_client = 0
    /\ stacks = <<>>
    /\ res = <<>>
    /\ NothingCalled

from_config ==
    /\ loaded.status = "none"
    /\ loaded' = FromConfig(server_config, kwargs, environ)
    /\ transport' = loaded'.client.transport
    /\ base_url' = loaded'.client.base_url
    /\ UNCHANGED <<server_config, kwargs, environ, file, exit_stack, mcp_client,
                   heap, pc, call, capt, obj, scope, fwd, last, hist>>

NextConfig == from_config
SpecConfig == InitConfig /\ [][NextConfig]_vars

\* MCPClient.from_config and MCPClient._find_config_file, from the file
\* system on; the file system varies with a plain document in the file,
\* the document and the alias asked for with ./mcp.json as the only file
InitLoad ==
    /\ server_name \in ServerNames
    /\ config_path \in ConfigPaths
    /\ paths \in FileSystems
    /\ home_dir \in BOOLEAN
    /\ config_data \in Documents
    /\ \/ config_data = PlainDocument /\ server_name = NoneV
       \/ config_path = NoneV /\ paths = CwdOnly /\ home_dir
    /\ found_config_path = Absent
    /\ target_server_name = Absent
    /\ server_config = NoConfig
    /\ kwargs = NoConfig
    /\ environ = NoEnviron
    /\ loaded = NotLoaded
    /\ transport = NotLoaded.client.transport
    /\ base_url = NotLoaded.client.base_url
    /\ exit_stack = 0
    /\ mcp_client = 0
    /\ stacks = <<>>
    /\ res = <<>>
    /\ NothingCalled

\* a call of MCPClient._find_config_file(config_path)
find_config_file ==
    /\ loaded.status = "none"
    /\ found_config_path = Absent
    /\ found_config_path' = FindConfigFile(config_path, paths, home_dir)
    /\ UNCHANGED <<server_name, config_path, paths, home_dir, config_data,
                   target_server_name, server_config, kwargs, environ, loaded,
                   transport, base_url, exit_stack, mcp_client,
                   heap, pc, call, capt, obj, scope, fwd, last, hist>>

\* a call of MCPClient.from_config(server_name, config_path, **kwargs)
from_config_file ==
    /\ loaded.status = "none"
    /\ LET r == LoadConfig(server_name, config_path, paths, home_dir,
                           config_data, kwargs, environ)
       IN /\ loaded' = [status |-> r.status, client |-> r.client]
          /\ found_config_path' = r.found
          /\ target_server_name' = r.target
          /\ server_config' = r.entry
    /\ transport' = loaded'.client.transport
    /\ base_url' = loaded'.client.base_url
    /\ UNCHANGED <<server_name, config_path, paths, home_dir, config_data,
                   kwargs, environ, exit_stack, mcp_client,
                   heap, pc, call, capt, obj, scope, fwd, last, hist>>

NextLoad == find_config_file \/ from_config_file
SpecLoad == InitLoad /\ [][NextLoad]_vars

TypeOK ==
    /\ transport \in {Str(tr) : tr \in Transports}
    /\ exit_stack \in 0..Len(stacks)
    /\ mcp_client \in 0..Len(res)
    /\ ncalls \in 0..MaxCalls
    /\ Len(stacks) <= ncalls
    /\ closeDuringInit \in BOOLEAN
    /\ \A t \in Tasks : pc[t] \in {"idle", "open_wait", "session_wait",
                                  "handshake_wait", "forward_wait", "aclose_wait"}

\* ------------------------------------------------------------ properties
Quiescent == \A t \in Tasks : pc[t] = "idle"
AllClosed == \A r \in DOMAIN res : res[r].state = "closed"
TransportsOpened == {r \in DOMAIN res : res[r].kind = "transport"}
Connecting == {t \in Tasks : pc[t] = "open_wait"}

\* C1: with transport "http" every call of initialize(), direct or through
\* an operation or the scoped entry, fails with unsupported-transport, and
\* no transport is opened or being opened.
C1_HttpAlwaysUnsupported ==
    transport = Str(HTTP) =>
        /\ last.call \in InitCalls => last.result = "unsupported_transport"
        /\ TransportsOpened = {}
        /\ Connecting = {}

\* C2: as long as close() has not been called, the initialize() calls made
\* on the client, repeated or interleaved, open at most one transport
\* (counting one that is being opened) on at most one resource stack.
C2_SingleTransportBeforeClose ==
    ~closeCalled =>
        /\ Cardinality(TransportsOpened) + Cardinality(Connecting) <= 1
        /\ Len(stacks) <= 1

\* a second call was made while the first initialize() was suspended with
\* its transport open
C2_Witness ==
    /\ ~closeCalled
    /\ ncalls >= 2
    /\ InInitialize # {}
    /\ Cardinality(TransportsOpened) = 1

\* C3: for one caller, when close() has returned every resource that
\* initialize() acquired is released and no exit callback is left on a
\* stack, also after an initialize() that failed part-way; resources of one
\* stack are released in reverse order of acquisition (session, then
\* transport).
C3_CloseReleasesAll ==
    /\ (Quiescent /\ last.call \in CloseCalls) =>
           /\ AllClosed
           /\ \A s \in DOMAIN stacks : stacks[s] = <<>>
    /\ \A i, j \in DOMAIN released :
           (i < j /\ res[released[i]].stack = res[released[j]].stack)
               => released[i] > released[j]

\* close() has returned after an initialize() whose handshake failed:
\* the session and then the transport were released
C3_Witness ==
    /\ Quiescent
    /\ last.call = "close"
    /\ ~closedReady
    /\ released = <<2, 1>>
    /\ res[1].kind = "transport"
    /\ ~res[2].hs

\* C4: for one caller, once an `async with` block is over - left normally,
\* left by a failure in its body, or never entered because the entry
\* failed - nothing the client opened is still open.
C4_ScopedReleaseOnEveryExit ==
    (/\ Quiescent
     /\ \/ last.call = "aexit"
        \/ last.call = "aenter" /\ last.result \in Failures)
        => AllClosed

\* C5: an operation is only ever forwarded to a session that is present,
\* open and has completed its handshake.
C5_ForwardOnlyToReadySession ==
    /\ last.fwd \in {"none", "ready"}
    /\ \A t \in Tasks : fwd[t] \in {"none", "ready"}

\* C6: until a first call has entered initialize() the constructed client
\* is uninitialized and nothing is open or being opened; an operation is
\* forwarded only after initialize() was entered.
C6_LazyInitialization ==
    /\ ~everInit =>
           /\ exit_stack = 0 /\ mcp_client = 0
           /\ stacks = <<>> /\ res = <<>>
           /\ Quiescent
    /\ (last.fwd # "none" \/ \E t \in Tasks : fwd[t] # "none") => everInit

\* the first call made on the client is an operation, suspended in its
\* initialize() with the first transport open
C6_Witness ==
    /\ ncalls = 1
    /\ Cardinality(TransportsOpened) = 1
    /\ \E t \in Tasks : call[t] \in Ops /\ pc[t] = "session_wait"

\* C7: for one caller, a close() on a client that never entered
\* initialize(), and a close() that directly follows a close(), returns
\* at once without failure and leaves the references, the stacks and the
\* resources as they were.
C7_CloseNoop ==
    [][\A t \in Tasks :
          (/\ close(t)
           /\ \/ ~everInit
              \/ Quiescent /\ last.call \in CloseCalls)
          => /\ pc'[t] = "idle"
             /\ last'.result = "ok"
             /\ UNCHANGED <<exit_stack, mcp_client, stacks, res, released>>]_vars

\* close() has returned on a client that never entered initialize()
C7_Witness ==
    /\ ~everInit
    /\ closeCalled
    /\ Quiescent
    /\ last.call = "close" /\ last.result = "ok"
    /\ exit_stack = 0 /\ res = <<>>

\* C8 as claimed: once close() has completed on a ready client the client
\* never has a resource stack again, and any later operation fails.
C8_ClosedIsTerminal ==
    closedReady =>
        /\ exit_stack = 0
        /\ last.call \in Ops => last.result \in Failures

\* C8 as amended: an operation that follows a completed close() of a ready
\* client initializes anew: it creates a new resource stack and starts
\* opening a transport on it.
C8_ReinitializesAfterClose ==
    [][\A t \in Tasks, op \in Ops :
          (/\ Operation(t, op)
           /\ closedReady
           /\ Quiescent /\ last.call \in CloseCalls)
          => /\ Len(stacks') = Len(stacks) + 1
             /\ exit_stack' = Len(stacks')
             /\ pc'[t] = "open_wait"
             /\ capt'[t] = exit_stack']_vars

\* after the close() of a ready client, an operation is opening a
\* transport on a second stack
C8_Witness ==
    /\ closedReady
    /\ Len(stacks) = 2
    /\ exit_stack = 2
    /\ \E t \in Tasks : call[t] \in Ops /\ pc[t] = "open_wait" /\ capt[t] = 2

\* C9: for one caller, a close() that completes leaves the client
\* uninitialized (no stack, no session); an initialize() on an
\* uninitialized client sets up a new, empty stack; and the session the
\* client is ready with is open, handshaken and registered on the current
\* stack after its transport.
C9_Lifecycle ==
    [][\A t \in Tasks :
          /\ ((close(t) \/ aexit(t) \/ AcloseStep(t)) /\ pc'[t] = "idle")
                => (exit_stack' = 0 /\ mcp_client' = 0)
          /\ \A c \in InitCalls :
                (MayCall(t, c) /\ RunInitialize(t, c) /\ exit_stack = 0)
                => /\ exit_stack' = Len(stacks) + 1
                   /\ stacks'[exit_stack'] = <<>>
          /\ (HandshakeDone(t) /\ mcp_client' # 0)
                => /\ SessionStatus(mcp_client', res') = "ready"
                   /\ ~res[mcp_client'].hs
                   /\ stacks'[exit_stack'] = <<mcp_client' - 1, mcp_client'>>
                   /\ res'[mcp_client' - 1].kind = "transport"
                   /\ res'[mcp_client' - 1].state = "open"]_vars

\* the client is ready a second time, on a second stack, after a close()
C9_Witness ==
    /\ Quiescent
    /\ closedReady
    /\ Len(stacks) = 2 /\ exit_stack = 2
    /\ mcp_client # 0
    /\ res[mcp_client].stack = 2
    /\ SessionStatus(mcp_client, res) = "ready"
\* from_config: a value that is given, the value a field is to take, and
\* what it is for a client to have it
Present(x) == x[1] \notin {"absent", "NoneType"}
Chosen(f) ==
    IF Present(kwargs[f]) THEN kwargs[f]
    ELSE IF Present(server_config[f]) THEN server_config[f]
    ELSE Absent
HasValue(c, f, v) ==
    CASE f \in {"base_url", "timeout", "transport", "command", "args"} -> c[f] = v
      [] f = "default_headers" ->
           v[1] = "dict" =>
               \A k \in DOMAIN v[2] \ {"Authorization"} :
                   k \in DOMAIN c.headers /\ c.headers[k] = v[2][k]
      [] f = "default_parameters" ->
           v[1] = "dict" =>
               \A k \in DOMAIN v[2] :
                   k \in DOMAIN c.default_parameters
                   /\ c.default_parameters[k] = v[2][k]
      [] f = "api_key" ->
           ~startswith(v[2], ENV_PREFIX) =>
               /\ "Authorization" \in DOMAIN c.headers
               /\ c.headers["Authorization"] = BEARER \o v[2]

\* C10: in the client from_config returns, every field for which an
\* override is given (and not None) has the override's value; a field
\* without override has the file's value; and the timeout given by
\* neither is the default 60.  For the two merged dicts "has the value"
\* is read per key; api_key is read off the Authorization header.
C10_OverridePrecedence ==
    loaded.status = "ok" =>
        /\ \A f \in Fields :
               Present(kwargs[f]) => HasValue(loaded.client, f, kwargs[f])
        /\ \A f \in Fields \ {"base_url", "transport"} :
               Present(Chosen(f)) => HasValue(loaded.client, f, Chosen(f))
        /\ ~Present(Chosen("timeout"))
               => loaded.client.timeout = Num(DEFAULT_TIMEOUT)

\* the file's value of a field as a client holds it: the transport label
\* in lower case
AsLoaded(f, v) ==
    IF f = "transport" /\ v[1] = "str" THEN Str(lower(v[2])) ELSE v

\* the fields from_config passes to the constructor even when None
AlwaysPassed == {"timeout", "base_url", "command"}

\* C11: in the client from_config returns, every field the file gives a
\* value for and whose override is None or not given has the file's value
\* (up to the case of the transport label).  The fields that are passed
\* on even when None (timeout, base_url, command) are left out.
C11_NoneNeverErases ==
    loaded.status = "ok" =>
        \A f \in Fields \ AlwaysPassed :
            (Present(server_config[f]) /\ ~Present(kwargs[f]))
            => HasValue(loaded.client, f, AsLoaded(f, server_config[f]))

NonEmptyStr(x) == x[1] = "str" /\ x[2] # <<>>

\* C12: every client from_config returns has the fields its transport
\* requires: a non-empty base_url when the transport is sse, a non-empty
\* command when it is stdio.
C12_RequiredFields ==
    loaded.status = "ok" =>
        /\ loaded.client.transport = Str(SSE) => NonEmptyStr(loaded.client.base_url)
        /\ loaded.client.transport = Str(STDIO) => NonEmptyStr(loaded.client.command)

\* the entry names a supported transport and has the field it requires
FileTransport == lower(Get(server_config, "transport", Str(HTTP))[2])
ValidEntry ==
    \/ FileTransport = STDIO /\ NonEmptyStr(server_config.command)
    \/ FileTransport \in {SSE, HTTP} /\ NonEmptyStr(server_config.base_url)

\* r is s without the slashes s ends with
IsStripped(s, r) ==
    \E n \in 0..Len(s) :
        /\ r = SubSeq(s, 1, n)
        /\ n = 0 \/ s[n] # "/"
        /\ \A i \in (n + 1)..Len(s) : s[i] = "/"

\* C13 as claimed: from_config without overrides succeeds on every valid
\* entry, and the client's base_url (sse, http) or command (stdio) is
\* exactly the file's value, its base_url None for stdio.
C13_ExactFileValues ==
    (loaded.status # "none" /\ kwargs = NoConfig /\ ValidEntry) =>
        /\ loaded.status = "ok"
        /\ IF FileTransport = STDIO
           THEN /\ loaded.client.command = server_config.command
                /\ loaded.client.base_url = NoneV
           ELSE loaded.client.base_url = server_config.base_url

\* C13 as amended: the same, but the client's base_url is the file's value
\* without its trailing slashes.
C13_FileValuesLoaded ==
    (loaded.status # "none" /\ kwargs = NoConfig /\ ValidEntry) =>
        /\ loaded.status = "ok"
        /\ IF FileTransport = STDIO
           THEN /\ loaded.client.command = server_config.command
                /\ loaded.client.base_url = NoneV
           ELSE /\ loaded.client.base_url[1] = "str"
                /\ IsStripped(server_config.base_url[2], loaded.client.base_url[2])

\* an sse entry whose base_url ends with a slash was loaded without
\* overrides
C13_Witness ==
    /\ loaded.status = "ok"
    /\ kwargs = NoConfig
    /\ FileTransport = SSE
    /\ server_config.base_url = Str(<<"u", "/">>)
    /\ loaded.client.base_url = Str(<<"u">>)

\* from_config has returned or raised, after locating a file and reading
\* a document that is an object
LoadedDocument ==
    /\ loaded.status # "none"
    /\ found_config_path[1] = "Path"
    /\ config_data[1] = "dict"
FileDefault == Get(config_data[2], "default_server", NoneV)
FileServers == Get(config_data[2], "servers", NoneV)

\* the alias C14 gives: the argument if given, else the file's
\* default_server if set, else "default" if among the servers, else none
ClaimedAlias ==
    IF server_name # NoneV THEN server_name
    ELSE IF FileDefault # NoneV THEN FileDefault
    ELSE IF FileServers[1] = "dict" /\ In(DEFAULT, FileServers) = "True"
         THEN Str(DEFAULT)
    ELSE NoneV

\* the failures that stand for the configuration-missing condition
ConfigurationMissing == {"ValueError", "KeyError"}

\* C14: from_config settles on the alias given as argument, else on the
\* file's default_server, else on "default" if it is among the servers,
\* and else fails with configuration-missing; the entry it loads is the
\* one written under that alias.
C14_AliasOrder ==
    LoadedDocument =>
        IF ClaimedAlias = NoneV
        THEN loaded.status \in ConfigurationMissing
        ELSE /\ FileServers[1] = "dict" => target_server_name = ClaimedAlias
             /\ loaded.status = "ok" =>
                    server_config = GetServer(FileServers[2], ClaimedAlias)[2]

\* C15: from_config fails with file-not-found (FileNotFoundError) when no
\* file is located, with data-format (MCPDataError) on malformed JSON, and
\* with configuration-missing (ValueError, KeyError) when the servers map
\* is absent or not an object or when the named entry is; these kinds are
\* distinct and none of these cases returns a client.
C15_FailureKinds ==
    loaded.status # "none" =>
        /\ found_config_path = NoneV => loaded.status = "FileNotFoundError"
        /\ (found_config_path[1] = "Path" /\ config_data[1] = "JSONDecodeError")
               => loaded.status = "MCPDataError"
        /\ (LoadedDocument /\ FileServers[1] # "dict")
               => loaded.status \in ConfigurationMissing
        /\ (/\ LoadedDocument
            /\ FileServers[1] = "dict"
            /\ target_server_name # Absent
            /\ GetServer(FileServers[2], target_server_name)[1] # "dict")
               => loaded.status \in ConfigurationMissing

\* the api_key from_config passes to the constructor, the variable it may
\* name, and whether a headers dict of the file or of the caller brings an
\* Authorization entry of its own
PassedApiKey == Get(kwargs, "api_key", Get(server_config, "api_key", NoneV))
NamesVariable == PassedApiKey = Str(ENV_PREFIX \o <<"X">>)
IsLiteral == PassedApiKey[1] = "str" /\ ~startswith(PassedApiKey[2], ENV_PREFIX)
BringsAuthorization(d) == d[1] = "dict" /\ "Authorization" \in DOMAIN d[2]
AuthorizationSupplied ==
    \/ BringsAuthorization(server_config.default_headers)
    \/ BringsAuthorization(kwargs.default_headers)
HasAuthorization(c, v) ==
    "Authorization" \in DOMAIN c.headers /\ c.headers["Authorization"] = v

HeadersOf(d) == IF d[1] = "dict" THEN d[2] ELSE <<>>
FileHeaders == HeadersOf(server_config.default_headers)
CallerHeaders == HeadersOf(kwargs.default_headers)
Secret ==
    IF NamesVariable
    THEN (IF environ[<<"X">>][1] = "str" THEN environ[<<"X">>][2] ELSE <<>>)
    ELSE IF IsLiteral THEN PassedApiKey[2]
    ELSE <<>>

\* C17: the client's headers are the file's, overwritten by the caller's,
\* overwritten by the synthesized Authorization: a key of the caller has
\* the caller's value, a key of the file alone the file's, there is no
\* other key, and when a secret is resolved Authorization is
\* "Bearer <secret>" whatever the file or the caller gave for it.
C17_HeaderMergeOrder ==
    loaded.status = "ok" =>
        LET h == loaded.client.headers
        IN /\ DOMAIN h \subseteq
                  DOMAIN FileHeaders \cup DOMAIN CallerHeaders \cup {"Authorization"}
           /\ \A k \in (DOMAIN FileHeaders \cup DOMAIN CallerHeaders) :
                  (k # "Authorization" \/ Secret = <<>>) =>
                      /\ k \in DOMAIN h
                      /\ h[k] = IF k \in DOMAIN CallerHeaders
                                THEN CallerHeaders[k] ELSE FileHeaders[k]
           /\ Secret # <<>> => HasAuthorization(loaded.client, BEARER \o Secret)

\* a secret was resolved for a client whose caller passed an
\* Authorization header of their own
C17_Witness ==
    /\ loaded.status = "ok"
    /\ "Authorization" \in DOMAIN CallerHeaders
    /\ Secret # <<>>
    /\ loaded.client.headers["Authorization"] = BEARER \o Secret
    /\ loaded.client.headers["Authorization"] # CallerHeaders["Authorization"]

\* the search locations in the order of the search, and whether the i-th
\* can be formed (the two under the home directory need it known)
SearchOrder == <<"cwd", "home", "home_config">>
Searched(i) == i = 1 \/ home_dir
IsFileAt(i) == Searched(i) /\ paths[SearchOrder[i]] = "file"

C19_SyncEntryRejected ==
    [][\A t \in Tasks :
          /\ enter(t) => last'.result = "unsupported_mode"
          /\ (enter(t) \/ exit(t)) =>
                 /\ UNCHANGED <<exit_stack, mcp_client, stacks, res, released>>
                 /\ UNCHANGED <<pc, call, capt, obj, fwd>>]_vars

\* __enter__ was rejected on a client that is ready, which it still is
C19_Witness ==
    /\ last.call = "enter"
    /\ last.result = "unsupported_mode"
    /\ mcp_client # 0
    /\ SessionStatus(mcp_client, res) = "ready"

\* a step of _initialize taken by task t
InitializeStep(t) ==
    \/ \E c \in InitCalls : MayCall(t, c) /\ RunInitialize(t, c)
    \/ OpenDone(t)
    \/ SessionDone(t)
    \/ HandshakeDone(t)

\* the session reference is backed: there is a stack, and between two
\* calls it holds the transport and then the session, both open, the
\* session with its handshake done
SessionBacked ==
    mcp_client # 0 =>
        /\ exit_stack # 0
        /\ res[mcp_client].kind = "session"
        /\ res[mcp_client].hs
        /\ res[mcp_client].stack = exit_stack
        /\ Quiescent =>
               /\ Len(stacks[exit_stack]) = 2
               /\ stacks[exit_stack][2] = mcp_client
               /\ res[stacks[exit_stack][1]].kind = "transport"
               /\ \A r \in {stacks[exit_stack][1], mcp_client} : res[r].state = "open"

\* C20: for one caller, in every state the session reference is set only
\* if the stack reference is and the stack holds the transport and the
\* handshaken session; and a step in which _initialize raises leaves the
\* session reference unset.
C20_SessionImpliesStack ==
    /\ []SessionBacked
    /\ [][\A t \in Tasks :
             (/\ InitializeStep(t)
              /\ pc'[t] = "idle"
              /\ last'.result \in Failures
              /\ last'.fwd = "none")
             => (mcp_client' = 0 /\ mcp_client = 0)]_vars

\* an initialize() failed at the handshake, with transport and session
\* entered on the stack: the session reference is not set
C20_Witness ==
    /\ Quiescent
    /\ last.call \in InitCalls
    /\ last.result = "io_error"
    /\ last.fwd = "none"
    /\ exit_stack # 0
    /\ Len(stacks[exit_stack]) = 2
    /\ mcp_client = 0

\* C21: when the call made last is a close() that was entered while an
\* _initialize() was suspended at the transport's entry, the session's
\* entry or the handshake (nothing having leaked before), then once every
\* task has finished every transport and session is released, no stack
\* holds a resource, and both references of the client are unset.
C21_LeakFreeTeardown ==
    (Quiescent /\ closeDuringInit) =>
        /\ AllClosed
        /\ \A s \in DOMAIN stacks : stacks[s] = <<>>
        /\ exit_stack = 0
        /\ mcp_client = 0
====
